---- MODULE Spec2Model ----
(***************************************************************************)
(* Model of ObterUN.py: one run of main() -- the authorization handshake, *)
(* the two-way concurrent fetch of the latest NFe number of each category *)
(* (BlingNFeClient.get_multiple_nfe_info over a ThreadPoolExecutor), and  *)
(* the numeric comparison NFEProcessor.compare_nfe_numbers.               *)
(*                                                                         *)
(* Python values are records [t, s]: t is the type tag, s the characters  *)
(* of a str (a sequence of one-character strings).  Exceptions are named  *)
(* by their class; "none" means no exception.                             *)
(***************************************************************************)
EXTENDS Integers, Sequences, FiniteSets, TLC

\* ---------------------------------------------------------------- Config
MAX_WORKERS == 2

NFE_DIGITS == 6

\* Longest tail of the strings fed to compare_nfe_numbers in CompareSpec.
MaxLen == 2

\* ------------------------------------------------------------ NFeTipo
NFeTipo == {"ENTRADA", "SAIDA"}

NFeTipoValue(tipo) == IF tipo = "ENTRADA" THEN 0 ELSE 1

\* ---------------------------------------------------------- Python values
None == [t |-> "None", s |-> <<>>]

Str(chars) == [t |-> "str", s |-> chars]

\* A JSON value that is neither a string, a number nor null and is truthy
\* (a non-empty object or array): what `numero` holds when the service
\* does not send a string.
Other == [t |-> "other", s |-> <<>>]

\* bool(v): None and "" are falsy.
Truthy(v) == v.t = "other" \/ (v.t = "str" /\ v.s # <<>>)

Digits == {"0", "1", "2", "3", "4", "5", "6", "7", "8", "9"}

DigitVal(c) ==
    CASE c = "0" -> 0 [] c = "1" -> 1 [] c = "2" -> 2 [] c = "3" -> 3
      [] c = "4" -> 4 [] c = "5" -> 5 [] c = "6" -> 6 [] c = "7" -> 7
      [] c = "8" -> 8 [] c = "9" -> 9

DigitChar(d) ==
    CASE d = 0 -> "0" [] d = 1 -> "1" [] d = 2 -> "2" [] d = 3 -> "3"
      [] d = 4 -> "4" [] d = 5 -> "5" [] d = 6 -> "6" [] d = 7 -> "7"
      [] d = 8 -> "8" [] d = 9 -> "9"

IsDigitString(chars) ==
    /\ Len(chars) > 0
    /\ \A i \in 1..Len(chars) : chars[i] \in Digits

RECURSIVE DecValue(_)
DecValue(chars) ==
    IF chars = <<>> THEN 0
    ELSE 10 * DecValue(SubSeq(chars, 1, Len(chars) - 1))
         + DigitVal(chars[Len(chars)])

\* int(v) over the characters the model uses (digits, sign, letters): an
\* optional sign followed by one or more digits; anything else in a str is
\* a ValueError, a non-str is a TypeError.  Python ints are unbounded.
PyInt(v) ==
    IF v.t # "str" THEN [exc |-> "TypeError", n |-> 0]
    ELSE LET signed == Len(v.s) > 0 /\ v.s[1] \in {"+", "-"}
             body   == IF signed THEN Tail(v.s) ELSE v.s
         IN  IF IsDigitString(body)
             THEN [exc |-> "none",
                   n   |-> IF signed /\ v.s[1] = "-"
                           THEN 0 - DecValue(body) ELSE DecValue(body)]
             ELSE [exc |-> "ValueError", n |-> 0]

\* A faulty variant of PyMax: the smaller operand.
PyMax_min(x, y) == IF x <= y THEN x ELSE y

\* max(entrada_int, saida_int)
PyMax(x, y) == IF x >= y THEN x ELSE y

RECURSIVE NatToStr(_)
NatToStr(n) ==
    IF n < 10 THEN <<DigitChar(n)>>
    ELSE NatToStr(n \div 10) \o <<DigitChar(n % 10)>>

ZeroFill(chars, w) ==
    IF Len(chars) >= w THEN chars
    ELSE [i \in 1..(w - Len(chars)) |-> "0"] \o chars

\* f"{n:0{w}d}": sign-aware zero padding to a minimum width.
FormatZeroPad(n, w) ==
    IF n < 0 THEN <<"-">> \o ZeroFill(NatToStr(0 - n), w - 1)
    ELSE ZeroFill(NatToStr(n), w)

\* A faulty variant of BothPresent: `or` in place of `and`.
BothPresent_or(a, b) == Truthy(a) \/ Truthy(b)

\* numero_entrada and numero_saida
BothPresent(a, b) == Truthy(a) /\ Truthy(b)

\* A faulty variant of CompareExcept: the handler names another class.
CompareExcept_TypeError(e) ==
    IF e = "TypeError"
    THEN [exc |-> "none", val |-> None, printed |-> TRUE]
    ELSE [exc |-> e, val |-> None, printed |-> FALSE]

\* except ValueError: print, return None; any other class propagates.
CompareExcept(e) ==
    IF e = "ValueError"
    THEN [exc |-> "none", val |-> None, printed |-> TRUE]
    ELSE [exc |-> e, val |-> None, printed |-> FALSE]

\* NFEProcessor.compare_nfe_numbers: [exc, val, printed].
compare_nfe_numbers(numero_entrada_, numero_saida_) ==
    IF ~BothPresent(numero_entrada_, numero_saida_)
    THEN [exc |-> "none", val |-> None, printed |-> FALSE]
    ELSE LET entrada_int == PyInt(numero_entrada_)
             saida_int   == PyInt(numero_saida_)
         IN  IF entrada_int.exc # "none" THEN CompareExcept(entrada_int.exc)
             ELSE IF saida_int.exc # "none" THEN CompareExcept(saida_int.exc)
             ELSE [exc |-> "none",
                   val |-> Str(FormatZeroPad(PyMax(entrada_int.n, saida_int.n),
                                             NFE_DIGITS)),
                   printed |-> FALSE]

\* ------------------------------------------------------- HTTP exchange
\* A decoded response body.  top: the JSON type of the body; data: the JSON
\* type of its 'data' member ("missing" when the key is absent); n: the
\* length of data (its value when data is a number); first: the JSON type
\* of data[0]; numero: the 'numero' member of data[0] (None when absent).
Env(top, data, n, first, numero) ==
    [top |-> top, data |-> data, n |-> n, first |-> first, numero |-> numero]

NoEnv == Env("none", "missing", 0, "null", None)

\* The invoice numbers the service sends in Spec.
ServiceNumeros ==
    { <<"4", "2">>, <<"5">>, <<"1", "0">>, <<"a", "b", "c">>, <<>> }

NumeroVals == {None, Other} \cup {Str(chars) : chars \in ServiceNumeros}

Envelopes ==
    {Env("list", "missing", 0, "null", None)}
      \cup {Env("dict", d, 0, "null", None) : d \in {"missing", "null"}}
      \cup {Env("dict", "list", 0, "null", None)}
      \cup {Env("dict", "list", 1, "dict", v) : v \in NumeroVals}
      \cup {Env("dict", "list", 1, f, None) : f \in {"null", "str"}}
      \cup {Env("dict", "dict", k, "null", None) : k \in 0..1}
      \cup {Env("dict", "str", 0, "null", None),
            Env("dict", "str", 1, "str", None)}
      \cup {Env("dict", "int", k, "null", None) : k \in 0..1}

\* What one GET can come to.  raises: the exception requests.get,
\* raise_for_status or response.json raises ("none" when the body decodes).
\* A body that is not JSON raises requests.JSONDecodeError or
\* json.JSONDecodeError, depending on the installed requests.
HttpOutcome(kind, raises, env) == [kind |-> kind, raises |-> raises, env |-> env]

HttpOutcomes ==
    {HttpOutcome("ConnectionError", "ConnectionError", NoEnv),
     HttpOutcome("Timeout", "Timeout", NoEnv),
     HttpOutcome("Non2xx", "HTTPError", NoEnv),
     HttpOutcome("BadBody", "requests.JSONDecodeError", NoEnv),
     HttpOutcome("BadBody", "json.JSONDecodeError", NoEnv)}
      \cup {HttpOutcome("Decoded", "none", e) : e \in Envelopes}

NoResponse == HttpOutcome("pending", "none", NoEnv)

IsRequestException(e) ==
    e \in {"ConnectionError", "Timeout", "HTTPError", "requests.JSONDecodeError"}

\* A faulty variant of FetchExcept: the RequestException handler is missing.
FetchExcept_decode_only(e) ==
    IF e = "json.JSONDecodeError"
    THEN [exc |-> "none", val |-> None, status |-> "parse_error"]
    ELSE [exc |-> e, val |-> None, status |-> "none"]

\* The two except clauses of get_nfe_info; any other class propagates.
FetchExcept(e) ==
    IF IsRequestException(e)
    THEN [exc |-> "none", val |-> None, status |-> "request_error"]
    ELSE IF e = "json.JSONDecodeError"
    THEN [exc |-> "none", val |-> None, status |-> "parse_error"]
    ELSE [exc |-> e, val |-> None, status |-> "none"]

\* The body of the try block once response.json() has returned `env`.
EnvelopeNumero(env) ==
    IF env.top # "dict" THEN FetchExcept("AttributeError")
    ELSE IF env.data \in {"missing", "null"} \/ env.n = 0
    THEN [exc |-> "none", val |-> None, status |-> "not_found"]
    ELSE IF env.data = "dict" THEN FetchExcept("KeyError")
    ELSE IF env.data = "int" THEN FetchExcept("TypeError")
    ELSE IF env.first # "dict" THEN FetchExcept("AttributeError")
    ELSE [exc |-> "none", val |-> env.numero, status |-> "numero"]

\* BlingNFeClient.get_nfe_info from the reply on: [exc, val, status].
get_nfe_info(tipo, o) ==
    IF o.raises # "none" THEN FetchExcept(o.raises)
    ELSE EnvelopeNumero(o.env)

\* GET {API_BASE_URL}/nfe?pagina=1&limite=1&tipo=..., Authorization: Bearer.
Request(tipo, token) ==
    [path |-> "/nfe", pagina |-> 1, limite |-> 1,
     tipo |-> NFeTipoValue(tipo), bearer |-> token.s]

\* ------------------------------------------------------------- The run
VARIABLES
    main_pc,         \* where main() is: get_code, get_token, fetch, compare, done, escaped
    main_exc,        \* the exception main()'s try block ended with, or "none"
    out,             \* the lines main() and compare_nfe_numbers printed
    auth_code,       \* main's auth_code
    access_token,    \* main's access_token
    numero_entrada,  \* main's numero_entrada
    numero_saida,    \* main's numero_saida
    max_numero,      \* main's max_numero
    fb_pc,           \* where get_multiple_nfe_info is
    fb_ret,          \* the tuple being built by its return statement
    fb_exc,          \* the exception unwinding out of it, or "none"
    shutdown,        \* the executor's shutdown flag
    queue,           \* the executor's work queue
    worker,          \* the executor's threads
    idle_sem,        \* the executor's idle semaphore
    future,          \* the two futures
    status,          \* the status line each get_nfe_info call printed
    response,        \* the reply each GET came to
    requests,        \* the GETs issued
    order            \* the categories in order of completion

vars ==
    <<main_pc, main_exc, out, auth_code, access_token, numero_entrada,
      numero_saida, max_numero, fb_pc, fb_ret, fb_exc, shutdown, queue,
      worker, idle_sem, future, status, response, requests, order>>

main_vars == <<main_pc, main_exc, out, auth_code, access_token,
               numero_entrada, numero_saida, max_numero>>

pool_vars == <<shutdown, queue, worker, idle_sem, future, status, response,
               requests, order>>

Workers == 1..MAX_WORKERS

\* BlingAuth.get_authorization_code(): a code, absence, or an exception.
AuthCodeOutcomes ==
    {[exc |-> "none", val |-> v] : v \in {None, Str(<<>>), Str(<<"c">>)}}
      \cup {[exc |-> "ConnectionError", val |-> None]}

\* BlingAuth.get_access_token(code): a token-bearing dict (access_token is
\* None when the key is missing), absence, or an exception.
TokenOutcomes ==
    {[exc |-> "none", isdict |-> TRUE, access_token |-> v] :
        v \in {None, Str(<<>>), Str(<<"t">>)}}
      \cup {[exc |-> "none", isdict |-> FALSE, access_token |-> None],
            [exc |-> "ConnectionError", isdict |-> FALSE, access_token |-> None]}

ExceptionClasses ==
    {"ConnectionError", "Timeout", "HTTPError", "requests.JSONDecodeError",
     "json.JSONDecodeError", "AttributeError", "KeyError", "TypeError",
     "ValueError"}

\* A faulty variant of MainCatches: the handler names ValueError alone.
MainCatches_ValueError(e) == e = "ValueError"

\* except Exception as e: every class above derives from Exception.
MainCatches(e) == e \in ExceptionClasses

\* main() leaving its try block with exception e after printing `printed`.
MainRaise(e, printed) ==
    /\ main_exc' = e
    /\ main_pc' = IF MainCatches(e) THEN "done" ELSE "escaped"
    /\ out' = IF MainCatches(e) THEN Append(printed, "error") ELSE printed

\* A faulty variant of Missing: the check is gone.
Missing_never(v) == FALSE

\* `if not auth_code`, `if not access_token`
Missing(v) == ~Truthy(v)

Init ==
    /\ main_pc = "get_code"
    /\ main_exc = "none"
    /\ out = <<>>
    /\ auth_code = None
    /\ access_token = None
    /\ numero_entrada = None
    /\ numero_saida = None
    /\ max_numero = None
    /\ fb_pc = "idle"
    /\ fb_ret = [entrada |-> None, saida |-> None]
    /\ fb_exc = "none"
    /\ shutdown = FALSE
    /\ queue = <<>>
    /\ worker = [w \in Workers |-> [st |-> "unborn", task |-> "none"]]
    /\ idle_sem = 0
    /\ future = [t \in NFeTipo |-> [state |-> "none", exc |-> "none", val |-> None]]
    /\ status = [t \in NFeTipo |-> "none"]
    /\ response = [t \in NFeTipo |-> NoResponse]
    /\ requests = {}
    /\ order = <<>>

\* main, lines 114-117.
MainGetAuthorizationCode(o) ==
    /\ main_pc = "get_code"
    /\ LET printed == Append(out, "getting_code") IN
       IF o.exc # "none"
       THEN MainRaise(o.exc, printed) /\ UNCHANGED auth_code
       ELSE /\ auth_code' = o.val
            /\ IF Missing(o.val)
               THEN MainRaise("ValueError", printed)
               ELSE /\ main_pc' = "get_token"
                    /\ out' = printed
                    /\ UNCHANGED main_exc
    /\ UNCHANGED <<access_token, numero_entrada, numero_saida, max_numero,
                   fb_pc, fb_ret, fb_exc>>
    /\ UNCHANGED pool_vars

\* main, lines 119-127 up to the call of get_multiple_nfe_info.
MainGetAccessToken(o) ==
    /\ main_pc = "get_token"
    /\ LET printed == Append(out, "getting_token") IN
       IF o.exc # "none"
       THEN MainRaise(o.exc, printed) /\ UNCHANGED <<access_token, fb_pc>>
       ELSE IF ~o.isdict
       THEN MainRaise("AttributeError", printed) /\ UNCHANGED <<access_token, fb_pc>>
       ELSE /\ access_token' = o.access_token
            /\ IF Missing(o.access_token)
               THEN MainRaise("ValueError", printed) /\ UNCHANGED fb_pc
               ELSE /\ main_pc' = "fetch"
                    /\ fb_pc' = "submit_entrada"
                    /\ out' = printed
                    /\ UNCHANGED main_exc
    /\ UNCHANGED <<auth_code, numero_entrada, numero_saida, max_numero,
                   fb_ret, fb_exc>>
    /\ UNCHANGED pool_vars

NumThreads == Cardinality({w \in Workers : worker[w].st # "unborn"})

\* ThreadPoolExecutor.submit: queue the work item, then use an idle thread
\* if the semaphore says there is one, else start a thread below max_workers.
Submit(tipo) ==
    /\ future' = [future EXCEPT ![tipo].state = "pending"]
    /\ queue' = Append(queue, tipo)
    /\ IF idle_sem > 0
       THEN idle_sem' = idle_sem - 1 /\ UNCHANGED worker
       ELSE /\ UNCHANGED idle_sem
            /\ IF NumThreads < MAX_WORKERS
               THEN LET w == CHOOSE x \in Workers :
                                /\ worker[x].st = "unborn"
                                /\ \A y \in Workers :
                                       worker[y].st = "unborn" => x <= y
                    IN  worker' = [worker EXCEPT ![w].st = "idle"]
               ELSE UNCHANGED worker

\* line 78
FbSubmitEntrada ==
    /\ fb_pc = "submit_entrada"
    /\ Submit("ENTRADA")
    /\ fb_pc' = "submit_saida"
    /\ UNCHANGED <<fb_ret, fb_exc, shutdown, status, response, requests, order>>
    /\ UNCHANGED main_vars

\* line 79
FbSubmitSaida ==
    /\ fb_pc = "submit_saida"
    /\ Submit("SAIDA")
    /\ fb_pc' = "result_entrada"
    /\ UNCHANGED <<fb_ret, fb_exc, shutdown, status, response, requests, order>>
    /\ UNCHANGED main_vars

\* A pool thread takes a work item and runs get_nfe_info up to the GET.
WorkerTake(w) ==
    /\ worker[w].st = "idle"
    /\ queue # <<>>
    /\ LET tipo == Head(queue) IN
       /\ queue' = Tail(queue)
       /\ worker' = [worker EXCEPT ![w] = [st |-> "running", task |-> tipo]]
       /\ future' = [future EXCEPT ![tipo].state = "running"]
       /\ requests' = requests \cup {Request(tipo, access_token)}
    /\ UNCHANGED <<shutdown, idle_sem, status, response, order>>
    /\ UNCHANGED <<fb_pc, fb_ret, fb_exc>>
    /\ UNCHANGED main_vars

\* The GET comes to o; get_nfe_info finishes, the future is set and the
\* thread goes back to the queue.
WorkerReceive(w, o) ==
    /\ worker[w].st = "running"
    /\ LET tipo == worker[w].task
           r    == get_nfe_info(tipo, o)
       IN /\ response' = [response EXCEPT ![tipo] = o]
          /\ status' = [status EXCEPT ![tipo] = r.status]
          /\ future' = [future EXCEPT ![tipo] =
                           [state |-> "finished", exc |-> r.exc, val |-> r.val]]
          /\ order' = Append(order, tipo)
    /\ worker' = [worker EXCEPT ![w] = [st |-> "idle", task |-> "none"]]
    /\ idle_sem' = idle_sem + 1
    /\ UNCHANGED <<shutdown, queue, requests>>
    /\ UNCHANGED <<fb_pc, fb_ret, fb_exc>>
    /\ UNCHANGED main_vars

\* A pool thread ends once the executor is shut down and the queue is empty.
WorkerExit(w) ==
    /\ shutdown
    /\ worker[w].st = "idle"
    /\ queue = <<>>
    /\ worker' = [worker EXCEPT ![w].st = "exited"]
    /\ UNCHANGED <<shutdown, queue, idle_sem, future, status, response,
                   requests, order>>
    /\ UNCHANGED <<fb_pc, fb_ret, fb_exc>>
    /\ UNCHANGED main_vars

\* line 80, future_entrada.result(): blocks until the future is set, then
\* returns its value or raises its exception, which unwinds into the with
\* block's exit.
FbResultEntrada ==
    /\ fb_pc = "result_entrada"
    /\ future["ENTRADA"].state = "finished"
    /\ IF future["ENTRADA"].exc # "none"
       THEN /\ fb_exc' = future["ENTRADA"].exc
            /\ shutdown' = TRUE
            /\ fb_pc' = "join"
            /\ UNCHANGED fb_ret
       ELSE /\ fb_ret' = [fb_ret EXCEPT !.entrada = future["ENTRADA"].val]
            /\ fb_pc' = "result_saida"
            /\ UNCHANGED <<fb_exc, shutdown>>
    /\ UNCHANGED <<queue, worker, idle_sem, future, status, response,
                   requests, order>>
    /\ UNCHANGED main_vars

\* line 80, future_saida.result(), then the with block's exit begins.
FbResultSaida ==
    /\ fb_pc = "result_saida"
    /\ future["SAIDA"].state = "finished"
    /\ IF future["SAIDA"].exc # "none"
       THEN fb_exc' = future["SAIDA"].exc /\ UNCHANGED fb_ret
       ELSE /\ fb_ret' = [fb_ret EXCEPT !.saida = future["SAIDA"].val]
            /\ UNCHANGED fb_exc
    /\ shutdown' = TRUE
    /\ fb_pc' = "join"
    /\ UNCHANGED <<queue, worker, idle_sem, future, status, response,
                   requests, order>>
    /\ UNCHANGED main_vars

\* A faulty variant of Joined: shutdown(wait=False).
Joined_nowait == TRUE

\* ThreadPoolExecutor.__exit__ is shutdown(wait=True): every thread joined.
Joined == \A w \in Workers : worker[w].st \in {"unborn", "exited"}

\* line 77, the with block's exit: get_multiple_nfe_info returns or raises.
FbJoin ==
    /\ fb_pc = "join"
    /\ Joined
    /\ fb_pc' = IF fb_exc = "none" THEN "returned" ELSE "raised"
    /\ UNCHANGED <<fb_ret, fb_exc>>
    /\ UNCHANGED pool_vars
    /\ UNCHANGED main_vars

\* main, line 127: the tuple is unpacked, or the exception reaches main.
MainUnpack ==
    /\ main_pc = "fetch"
    /\ fb_pc \in {"returned", "raised"}
    /\ IF fb_pc = "raised"
       THEN MainRaise(fb_exc, out) /\ UNCHANGED <<numero_entrada, numero_saida>>
       ELSE /\ numero_entrada' = fb_ret.entrada
            /\ numero_saida' = fb_ret.saida
            /\ main_pc' = "compare"
            /\ UNCHANGED <<main_exc, out>>
    /\ UNCHANGED <<auth_code, access_token, max_numero>>
    /\ UNCHANGED <<fb_pc, fb_ret, fb_exc>>
    /\ UNCHANGED pool_vars

\* main, lines 130-134.
MainCompare ==
    /\ main_pc = "compare"
    /\ LET r == compare_nfe_numbers(numero_entrada, numero_saida)
           printed == IF r.printed THEN Append(out, "compare_error") ELSE out
       IN IF r.exc # "none"
          THEN MainRaise(r.exc, printed) /\ UNCHANGED max_numero
          ELSE /\ max_numero' = r.val
               /\ out' = Append(printed, IF Truthy(r.val) THEN "result"
                                         ELSE "undetermined")
               /\ main_pc' = "done"
               /\ UNCHANGED main_exc
    /\ UNCHANGED <<auth_code, access_token, numero_entrada, numero_saida>>
    /\ UNCHANGED <<fb_pc, fb_ret, fb_exc>>
    /\ UNCHANGED pool_vars

Next ==
    \/ \E o \in AuthCodeOutcomes : MainGetAuthorizationCode(o)
    \/ \E o \in TokenOutcomes : MainGetAccessToken(o)
    \/ FbSubmitEntrada
    \/ FbSubmitSaida
    \/ \E w \in Workers : WorkerTake(w)
    \/ \E w \in Workers : \E o \in HttpOutcomes : WorkerReceive(w, o)
    \/ \E w \in Workers : WorkerExit(w)
    \/ FbResultEntrada
    \/ FbResultSaida
    \/ FbJoin
    \/ MainUnpack
    \/ MainCompare

Spec == Init /\ [][Next]_vars

\* ------------------------------------------- compare_nfe_numbers alone
Alphabet == {"0", "1", "5", "-", "a"}

Prefixes == { <<>>, <<"0", "0", "0", "0">>, <<"1", "0", "0", "0", "0">> }

Tails == UNION {[1..n -> Alphabet] : n \in 0..MaxLen}

\* The invoice numbers of the documented scenarios.
Examples ==
    { <<"a", "b", "c">>, <<"9">>, <<"4", "2">>,
      <<"0", "0", "0", "1", "2", "3">>, <<"0", "0", "0", "0", "8", "7">> }

\* Optional[str]: the arguments compare_nfe_numbers is declared to take.
CompareInputs ==
    {None} \cup {Str(p \o s) : p \in Prefixes, s \in Tails}
           \cup {Str(e) : e \in Examples}

\* The reply that makes get_nfe_info return v.
ReplyWith(v) == HttpOutcome("Decoded", "none", Env("dict", "list", 1, "dict", v))

\* main about to call compare_nfe_numbers(a, b): the state MainUnpack
\* leaves when the two fetches returned a and b.
CompareInit ==
    \E a \in CompareInputs, b \in CompareInputs :
        /\ main_pc = "compare"
        /\ main_exc = "none"
        /\ out = <<"getting_code", "getting_token">>
        /\ auth_code = Str(<<"c">>)
        /\ access_token = Str(<<"t">>)
        /\ numero_entrada = a
        /\ numero_saida = b
        /\ max_numero = None
        /\ fb_pc = "returned"
        /\ fb_ret = [entrada |-> a, saida |-> b]
        /\ fb_exc = "none"
        /\ shutdown = TRUE
        /\ queue = <<>>
        /\ worker = [w \in Workers |-> [st |-> "exited", task |-> "none"]]
        /\ idle_sem = MAX_WORKERS
        /\ future = [t \in NFeTipo |->
                        [state |-> "finished", exc |-> "none",
                         val |-> IF t = "ENTRADA" THEN a ELSE b]]
        /\ status = [t \in NFeTipo |-> "numero"]
        /\ response = [t \in NFeTipo |->
                          ReplyWith(IF t = "ENTRADA" THEN a ELSE b)]
        /\ requests = {Request(t, Str(<<"t">>)) : t \in NFeTipo}
        /\ order = <<"ENTRADA", "SAIDA">>

CompareNext == MainCompare

CompareSpec == CompareInit /\ [][CompareNext]_vars

\* ------------------------------------------------------------ Properties
Last(q) == q[Len(q)]

Count(q, x) == Cardinality({i \in 1..Len(q) : q[i] = x})

OtherTipo(t) == IF t = "ENTRADA" THEN "SAIDA" ELSE "ENTRADA"

\* A str of an optional sign and one or more decimal digits.
IntegerText(v) ==
    /\ v.t = "str"
    /\ \/ IsDigitString(v.s)
       \/ Len(v.s) > 1 /\ v.s[1] \in {"+", "-"} /\ IsDigitString(Tail(v.s))

\* A str of decimal digits only: a non-negative decimal integer.
NaturalText(v) == v.t = "str" /\ IsDigitString(v.s)

\* C1: whatever the HTTP exchange of a category comes to, get_nfe_info
\* raises nothing to its caller, and a transport or decode error makes it
\* return None.
C1_FetchNeverRaises ==
    \A t \in NFeTipo :
        future[t].state = "finished" =>
            /\ future[t].exc = "none"
            /\ response[t].raises # "none" => future[t].val = None

\* C2: get_multiple_nfe_info always returns a pair, the ENTRADA fetch's
\* result first and the SAIDA fetch's result second, whatever the order in
\* which the two tasks complete and whether or not they fail.
C2_PairInOrder ==
    fb_pc \in {"returned", "raised"} =>
        /\ fb_pc = "returned"
        /\ fb_ret.entrada = get_nfe_info("ENTRADA", response["ENTRADA"]).val
        /\ fb_ret.saida = get_nfe_info("SAIDA", response["SAIDA"]).val

\* C3: get_multiple_nfe_info gives control back to its caller, by return
\* or by exception, only once both category fetches have completed.
C3_ReturnsAfterBoth ==
    fb_pc \in {"returned", "raised"} =>
        /\ \A t \in NFeTipo : future[t].state = "finished"
        /\ \A w \in Workers : worker[w].st # "running"
        /\ queue = <<>>

\* C3 witness: the ENTRADA fetch failed first, and the call still ended
\* only after the SAIDA fetch.
C3_Witness ==
    /\ fb_pc = "raised"
    /\ order = <<"ENTRADA", "SAIDA">>
    /\ future["ENTRADA"].exc # "none"
    /\ future["SAIDA"].state = "finished"

\* C4: compare_nfe_numbers returns None whenever one of its arguments is
\* None, whatever the other argument is, and main reports the maximum as
\* undetermined.
C4_AbsentGivesAbsent ==
    (main_pc # "compare" /\ (numero_entrada = None \/ numero_saida = None)) =>
        /\ main_exc = "none"
        /\ max_numero = None
        /\ Last(out) = "undetermined"

\* C4 witness: None against a malformed number.
C4_Witness ==
    /\ main_pc = "done"
    /\ numero_entrada = None
    /\ numero_saida = Str(<<"a", "b", "c">>)
    /\ max_numero = None

\* C5: when both arguments are strings of decimal digits, the result is the
\* decimal text of the numerically greater value, zero-padded on the left to
\* at least NFE_DIGITS characters and never truncated: a longer maximum is
\* given in full, without leading zeros.
C5_NumericMaxZeroPadded ==
    (main_pc # "compare" /\ NaturalText(numero_entrada) /\ NaturalText(numero_saida)) =>
        /\ main_exc = "none"
        /\ NaturalText(max_numero)
        /\ DecValue(max_numero.s) >= DecValue(numero_entrada.s)
        /\ DecValue(max_numero.s) >= DecValue(numero_saida.s)
        /\ DecValue(max_numero.s) \in
               {DecValue(numero_entrada.s), DecValue(numero_saida.s)}
        /\ Len(max_numero.s) >= NFE_DIGITS
        /\ Len(max_numero.s) > NFE_DIGITS => max_numero.s[1] # "0"
        /\ Last(out) = "result"

\* C5 witness: "5" against "10" gives "000010".
C5_Witness ==
    /\ main_pc = "done"
    /\ numero_entrada = Str(<<"5">>)
    /\ numero_saida = Str(<<"1", "0">>)
    /\ max_numero = Str(<<"0", "0", "0", "0", "1", "0">>)

\* C6: when both arguments are strings and one of them is not the text of
\* an integer, compare_nfe_numbers returns None and raises nothing.
C6_MalformedGivesAbsent ==
    (/\ main_pc # "compare"
     /\ numero_entrada.t = "str" /\ numero_saida.t = "str"
     /\ ~IntegerText(numero_entrada) \/ ~IntegerText(numero_saida)) =>
        /\ main_exc = "none"
        /\ max_numero = None
        /\ Last(out) = "undetermined"

\* C6 witness: "abc" against "10" gives None, after the ValueError was
\* caught and reported.
C6_Witness ==
    /\ main_pc = "done"
    /\ numero_entrada = Str(<<"a", "b", "c">>)
    /\ numero_saida = Str(<<"1", "0">>)
    /\ max_numero = None
    /\ Count(out, "compare_error") = 1

\* C7: while the authorization code or the access token is missing, no
\* fetch has been attempted: no GET was issued and get_multiple_nfe_info
\* was not entered.
C7_NoFetchWithoutAuth ==
    (~Truthy(auth_code) \/ ~Truthy(access_token)) =>
        /\ requests = {}
        /\ fb_pc = "idle"
        /\ \A t \in NFeTipo : future[t].state = "none"

\* C7 witness: a run that got a code but no token and ended without a GET.
C7_Witness ==
    /\ main_pc = "done"
    /\ Truthy(auth_code)
    /\ ~Truthy(access_token)
    /\ main_exc \in {"ValueError", "AttributeError"}
    /\ Last(out) = "error"
    /\ requests = {}

NetworkError(o) == o.kind \in {"ConnectionError", "Timeout"}

\* C8: in a finished run where one category's GET failed with a network
\* error and the other's reply carried a number, the failed category came
\* to None, the other category's number reached main, and the comparison
\* was reported as undetermined.
C8_OneFetchFails ==
    \A t \in NFeTipo :
        (/\ main_pc = "done"
         /\ NetworkError(response[OtherTipo(t)])
         /\ response[t].kind = "Decoded"
         /\ response[t].env.top = "dict" /\ response[t].env.data = "list"
         /\ response[t].env.n > 0 /\ response[t].env.first = "dict"
         /\ NaturalText(response[t].env.numero)) =>
            /\ main_exc = "none"
            /\ future[OtherTipo(t)] = [state |-> "finished", exc |-> "none", val |-> None]
            /\ future[t] = [state |-> "finished", exc |-> "none",
                            val |-> response[t].env.numero]
            /\ (IF t = "ENTRADA" THEN numero_entrada ELSE numero_saida)
                   = response[t].env.numero
            /\ (IF t = "ENTRADA" THEN numero_saida ELSE numero_entrada) = None
            /\ max_numero = None
            /\ Last(out) = "undetermined"

\* C8 witness: the SAIDA GET fails first with a connection error, the
\* ENTRADA fetch still brings "42".
C8_Witness ==
    /\ main_pc = "done"
    /\ response["SAIDA"].kind = "ConnectionError"
    /\ order = <<"SAIDA", "ENTRADA">>
    /\ numero_entrada = Str(<<"4", "2">>)
    /\ numero_saida = None
    /\ Last(out) = "undetermined"

C10_ResultIsDigits ==
    (main_pc # "compare" /\ main_exc = "none") =>
        \/ max_numero = None
        \/ /\ NaturalText(max_numero)
           /\ Len(max_numero.s) >= NFE_DIGITS

====
